---------------------------- MODULE Spec2Model ----------------------------
(***************************************************************************)
(* File manager of celebal-week3-nodejs-async-patterns.                    *)
(*                                                                         *)
(* The repository holds four copies of one file-operations module:         *)
(*   callback  FileManagerCallback  src/src/week3_async_patterns_evolution.js *)
(*   promise   FileManagerPromise   src/src/week3_async_patterns_evolution.js *)
(*   async     FileManagerAsync     src/src/week3_async_patterns_evolution.js *)
(*   singleton FileManager          src/unnamed/part_001 (fileManager.js)  *)
(* Every operation is a chain of filesystem calls; each call is one atomic *)
(* step here, and requests interleave between the calls.                   *)
(*                                                                         *)
(* A string is a sequence: a filename is a sequence of one-character       *)
(* strings, a content is a sequence of UTF-16 code units (numbers), a file *)
(* holds a sequence of bytes (numbers), a path is a sequence of segments.  *)
(***************************************************************************)
EXTENDS Integers, Sequences, FiniteSets, TLC

\* the field names of the model's records; every record below lists its
\* fields in this order
FieldNames ==
  [body |-> 1, call |-> 2, calls |-> 3, code |-> 4, content |-> 5, data |-> 6,
   error |-> 7, filename |-> 8, files |-> 9, has |-> 10, kind |-> 11,
   message |-> 12, method |-> 13, op |-> 14, outcome |-> 15, path |-> 16,
   size |-> 17, status |-> 18, statusCode |-> 19]

(***************************************************************************)
(* Bounds of the model.                                                    *)
(***************************************************************************)
\* request slots that run concurrently
NumReq == 2
\* longest filename the validator specification enumerates exhaustively
MaxNameLen == 3
\* longest content (in UTF-16 code units) the scripted runs enumerate
MaxContentLen == 2
\* how many times a scripted caller repeats a call
MaxRepeat == 3

(***************************************************************************)
(* Strings.                                                                *)
(***************************************************************************)
Lower ==
  {"a","b","c","d","e","f","g","h","i","j","k","l","m",
   "n","o","p","q","r","s","t","u","v","w","x","y","z"}

Upper ==
  {"A","B","C","D","E","F","G","H","I","J","K","L","M",
   "N","O","P","Q","R","S","T","U","V","W","X","Y","Z"}

Digit ==
  {"0","1","2","3","4","5","6","7","8","9"}

\* s.includes(sub)
Includes(s, sub) ==
  \E i \in 1..(Len(s) - Len(sub) + 1) : SubSeq(s, i, i + Len(sub) - 1) = sub

\* s.startsWith(pre)
StartsWith(s, pre) ==
  Len(s) >= Len(pre) /\ SubSeq(s, 1, Len(pre)) = pre

\* the character class of /^[a-zA-Z0-9-_\.]+$/ : letters, digits, '-', '_', '.'
validFilenameClass ==
  Lower \cup Upper \cup Digit \cup {"-", "_", "."}

\* the regex written as /^\w+$/ : no '-' and no '.'
validFilenameRegexWord(filename) ==
  /\ Len(filename) >= 1
  /\ \A i \in 1..Len(filename) :
       filename[i] \in Lower \/ filename[i] \in Upper \/ filename[i] \in Digit
         \/ filename[i] = "_"

\* validFilenameRegex.test(filename): one or more characters, all of the class
validFilenameRegex(filename) ==
  /\ Len(filename) >= 1
  /\ \A i \in 1..Len(filename) : filename[i] \in validFilenameClass

\* the length limit of isValidFilename
MaxFilenameLength == 255

isValidFilenameNoHidden(filename) ==
  /\ validFilenameRegex(filename)
  /\ Len(filename) > 0
  /\ Len(filename) <= MaxFilenameLength
  /\ ~Includes(filename, <<".", ".">>)
  /\ ~Includes(filename, <<"/">>)
  /\ ~Includes(filename, <<"\\">>)

isValidFilenameNoLimit(filename) ==
  /\ validFilenameRegex(filename)
  /\ Len(filename) > 0
  /\ ~Includes(filename, <<".", ".">>)
  /\ ~StartsWith(filename, <<".">>)
  /\ ~Includes(filename, <<"/">>)
  /\ ~Includes(filename, <<"\\">>)

\* isValidFilename, the same text in all four copies of the module
isValidFilename(filename) ==
  /\ validFilenameRegex(filename)
  /\ Len(filename) > 0
  /\ Len(filename) <= MaxFilenameLength
  /\ ~Includes(filename, <<".", ".">>)
  /\ ~StartsWith(filename, <<".">>)
  /\ ~Includes(filename, <<"/">>)
  /\ ~Includes(filename, <<"\\">>)

(***************************************************************************)
(* Paths: path.join(baseDir, filename) joins with '/' and normalises.      *)
(***************************************************************************)
RECURSIVE SplitSlash(_, _, _)
\* s.split('/'), with acc the segments so far and cur the segment being read
SplitSlash(s, acc, cur) ==
  IF s = <<>> THEN Append(acc, cur)
  ELSE IF Head(s) = "/" THEN SplitSlash(Tail(s), Append(acc, cur), <<>>)
  ELSE SplitSlash(Tail(s), acc, Append(cur, Head(s)))

RECURSIVE Normalize(_, _)
\* path.normalize over segments: '' and '.' vanish, '..' drops the last segment
Normalize(segs, acc) ==
  IF segs = <<>> THEN acc
  ELSE IF Head(segs) = <<>> \/ Head(segs) = <<".">> THEN Normalize(Tail(segs), acc)
  ELSE IF Head(segs) = <<".", ".">>
    THEN Normalize(Tail(segs), IF acc = <<>> THEN acc ELSE SubSeq(acc, 1, Len(acc) - 1))
  ELSE Normalize(Tail(segs), Append(acc, Head(segs)))

\* path.join(dir, filename), dir an absolute normalised path
PathJoin(dir, filename) ==
  Normalize(SplitSlash(filename, <<>>, <<>>), dir)

\* __dirname of the module files
Dirname == << <<"a","p","p">>, <<"s","r","c">> >>

\* baseDir = path.join(__dirname, '..', 'files')
baseDir ==
  PathJoin(PathJoin(Dirname, <<".", ".">>), <<"f","i","l","e","s">>)

Parent(p) == SubSeq(p, 1, Len(p) - 1)

(***************************************************************************)
(* UTF-8: fs.writeFile(path, content, 'utf8') and fs.readFile(path, 'utf8')*)
(***************************************************************************)
IsHighSurrogate(u) == u >= 55296 /\ u <= 56319
IsLowSurrogate(u) == u >= 56320 /\ u <= 57343

\* the bytes of one code point
EncodeCodePoint(cp) ==
  IF cp < 128 THEN <<cp>>
  ELSE IF cp < 2048 THEN <<192 + (cp \div 64), 128 + (cp % 64)>>
  ELSE IF cp < 65536
    THEN <<224 + (cp \div 4096), 128 + ((cp \div 64) % 64), 128 + (cp % 64)>>
  ELSE <<240 + (cp \div 262144), 128 + ((cp \div 4096) % 64),
         128 + ((cp \div 64) % 64), 128 + (cp % 64)>>

RECURSIVE EncodeUtf8(_)
\* Buffer.from(content, 'utf8'): a surrogate pair is one code point, an
\* unpaired surrogate is written as U+FFFD
EncodeUtf8(s) ==
  IF s = <<>> THEN <<>>
  ELSE IF IsHighSurrogate(s[1]) /\ Len(s) >= 2 /\ IsLowSurrogate(s[2])
    THEN EncodeCodePoint(65536 + (s[1] - 55296) * 1024 + (s[2] - 56320))
           \o EncodeUtf8(SubSeq(s, 3, Len(s)))
  ELSE IF IsHighSurrogate(s[1]) \/ IsLowSurrogate(s[1])
    THEN EncodeCodePoint(65533) \o EncodeUtf8(Tail(s))
  ELSE EncodeCodePoint(s[1]) \o EncodeUtf8(Tail(s))

\* the code units of one code point
CodeUnits(cp) ==
  IF cp < 65536 THEN <<cp>>
  ELSE <<55296 + ((cp - 65536) \div 1024), 56320 + ((cp - 65536) % 1024)>>

IsCont(b, i) == i <= Len(b) /\ b[i] >= 128 /\ b[i] < 192

RECURSIVE DecodeUtf8(_)
\* buffer.toString('utf8'): a byte that starts no well-formed sequence is U+FFFD
DecodeUtf8(b) ==
  IF b = <<>> THEN <<>>
  ELSE IF b[1] < 128 THEN <<b[1]>> \o DecodeUtf8(Tail(b))
  ELSE IF b[1] >= 194 /\ b[1] < 224 /\ IsCont(b, 2)
    THEN CodeUnits((b[1] - 192) * 64 + (b[2] - 128))
           \o DecodeUtf8(SubSeq(b, 3, Len(b)))
  ELSE IF b[1] >= 224 /\ b[1] < 240 /\ IsCont(b, 2) /\ IsCont(b, 3)
    THEN CodeUnits((b[1] - 224) * 4096 + (b[2] - 128) * 64 + (b[3] - 128))
           \o DecodeUtf8(SubSeq(b, 4, Len(b)))
  ELSE IF b[1] >= 240 /\ b[1] < 245 /\ IsCont(b, 2) /\ IsCont(b, 3) /\ IsCont(b, 4)
    THEN CodeUnits((b[1] - 240) * 262144 + (b[2] - 128) * 4096
                   + (b[3] - 128) * 64 + (b[4] - 128))
           \o DecodeUtf8(SubSeq(b, 5, Len(b)))
  ELSE <<65533>> \o DecodeUtf8(Tail(b))

(***************************************************************************)
(* The filesystem: a map from paths to entries.                            *)
(***************************************************************************)
NoEntry == [data |-> <<>>, kind |-> "none"]
DirEntry == [data |-> <<>>, kind |-> "dir"]
FileEntry(bytes) == [data |-> bytes, kind |-> "file"]

\* what is at path p ("none" also for a path the map does not hold)
EntryAt(f, p) == IF p \in DOMAIN f THEN f[p] ELSE NoEntry

RECURSIVE PathError(_, _)
\* the error of resolving path p: "" when an entry is there
PathError(f, p) ==
  IF p = <<>> THEN ""
  ELSE LET up == PathError(f, Parent(p))
       IN IF up # "" THEN up
          ELSE IF EntryAt(f, Parent(p)).kind # "dir" THEN "ENOTDIR"
          ELSE IF EntryAt(f, p).kind = "none" THEN "ENOENT"
          ELSE ""

\* fs.access(p): the error code, "" for none
AccessError(f, p) == PathError(f, p)

\* fs.readFile(p, 'utf8'): the error code, "" for none
ReadError(f, p) ==
  IF PathError(f, p) # "" THEN PathError(f, p)
  ELSE IF EntryAt(f, p).kind = "dir" THEN "EISDIR"
  ELSE ""

\* fs.stat(p): the error code, "" for none
StatError(f, p) == PathError(f, p)

\* stats.size: the number of bytes of the file
StatSize(f, p) == Len(EntryAt(f, p).data)

\* fs.writeFile(p, data, 'utf8') (flag 'w': create or truncate): the error code
WriteError(f, p) ==
  IF p = <<>> THEN "EISDIR"
  ELSE IF PathError(f, Parent(p)) # "" THEN PathError(f, Parent(p))
  ELSE IF EntryAt(f, Parent(p)).kind # "dir" THEN "ENOTDIR"
  ELSE IF EntryAt(f, p).kind = "dir" THEN "EISDIR"
  ELSE ""

\* fs.unlink(p): the error code
UnlinkError(f, p) ==
  IF PathError(f, p) # "" THEN PathError(f, p)
  ELSE IF EntryAt(f, p).kind = "dir" THEN "EISDIR"
  ELSE ""

\* the names of the entries directly under the base directory
DirNames(f) ==
  {p[Len(p)] : p \in {q \in DOMAIN f : /\ Len(q) = Len(baseDir) + 1
                                       /\ Parent(q) = baseDir
                                       /\ f[q].kind # "none"}}

\* fs.readdir(baseDir): the error code, "" for none
ReaddirError(f) ==
  IF PathError(f, baseDir) # "" THEN PathError(f, baseDir)
  ELSE IF EntryAt(f, baseDir).kind # "dir" THEN "ENOTDIR"
  ELSE ""

\* fs.readdir(baseDir): the names in directory order, an order that the
\* directory's content fixes and that need not be sorted
Readdir(f) ==
  LET S == DirNames(f)
      n == Cardinality(S)
  IN CHOOSE s \in [1..n -> S] : \A i \in 1..n : \A j \in 1..n : i # j => s[i] # s[j]

\* the message of a raw filesystem error (the syscall and the path follow it)
RawMessage(code) ==
  CASE code = "ENOENT" -> "ENOENT: no such file or directory"
    [] code = "ENOTDIR" -> "ENOTDIR: not a directory"
    [] code = "EISDIR" -> "EISDIR: illegal operation on a directory"
    [] code = "EACCES" -> "EACCES: permission denied"
    [] OTHER -> "EIO: i/o error"

(***************************************************************************)
(* Requests and their results.                                             *)
(***************************************************************************)
Variants == {"callback", "promise", "async", "singleton"}

Req == 1..NumReq

NoOutcome ==
  [code |-> "", content |-> <<>>, files |-> <<>>, message |-> "", size |-> 0,
   status |-> "none"]

\* new Error(message)
NewError(msg) ==
  [code |-> "", content |-> <<>>, files |-> <<>>, message |-> msg, size |-> 0,
   status |-> "error"]

\* the error a filesystem call fails with
FsError(code) ==
  [code |-> code, content |-> <<>>, files |-> <<>>, message |-> RawMessage(code),
   size |-> 0, status |-> "error"]

\* a success result of create, read or delete; content is set by read only
Success(size, content) ==
  [code |-> "", content |-> content, files |-> <<>>, message |-> "", size |-> size,
   status |-> "ok"]

\* the success result of list: the array of file details
Listed(details) ==
  [code |-> "", content |-> <<>>, files |-> details, message |-> "", size |-> 0,
   status |-> "ok"]

NoRequest == [content |-> <<>>, filename |-> <<>>, op |-> "none"]

CreateOp(n, c) == [content |-> c, filename |-> n, op |-> "create"]
ReadOp(n) == [content |-> <<>>, filename |-> n, op |-> "read"]
DeleteOp(n) == [content |-> <<>>, filename |-> n, op |-> "delete"]
ListOp == [content |-> <<>>, filename |-> <<>>, op |-> "list"]

\* the body of an HTTP request. kind: "empty" (no byte), "malformed" (text
\* JSON.parse throws on), "null" (the JSON text null) or "object"; for an
\* object, has holds the names of its fields among filename and content
Body(kind, has, filename, content) ==
  [content |-> content, filename |-> filename, has |-> has, kind |-> kind]

EmptyBody == Body("empty", {}, <<>>, <<>>)

\* an HTTP request: the method, the pathname (a sequence of characters) and
\* the body as received
HttpRequest(method, path, body) == [body |-> body, method |-> method, path |-> path]

\* the slot serves no HTTP request
NoHttpRequest == HttpRequest("", <<>>, EmptyBody)

\* no response sent yet
NoResponse == [error |-> "", kind |-> "none", status |-> 0, statusCode |-> 0]

\* one filesystem call of a request; error is "pending" until the call completes
FsCall(call, p) == [call |-> call, error |-> "pending", path |-> p]

\* the calls with the last one completed with error e ("" for success)
Completed(cs, e) == [cs EXCEPT ![Len(cs)].error = e]

VARIABLES
  variant,      \* which copy of the module serves the requests
  init,         \* initializeDirectory: "pending", "ready", "failed", "crashed"
  fs,           \* the filesystem
  pc,           \* per request: the filesystem call it waits for
  req,          \* per request: the operation and its arguments
  readContent,  \* per request: readFile's local 'content'
  calls,        \* per request: the filesystem calls it has issued
  outcome,      \* per request: what its caller was given
  invoked,      \* per request: how many times its caller was given a result
                \* (the completion callback invoked, the promise settled)
  scenario,     \* the name of the run's workload
  script,       \* per request: the operations its caller runs one after another
  results,      \* per request: the outcomes of the script's completed operations
  vname,        \* the filename under validation
  vresult,      \* "none", or the validator's answer "true" / "false"
  files,        \* per request: listFiles' 'files', the names readdir gave
  fileDetails,  \* per request: listFiles' 'fileDetails'
  hasError,     \* per request: listFiles has failed (callback: 'hasError';
                \* the others: the promise of Promise.all is rejected)
  request,      \* per request: the HTTP request the server handles
  response      \* per request: the HTTP response sent

reqVars == <<pc, req, readContent, calls, outcome, invoked>>
scriptVars == <<scenario, script, results>>
validatorVars == <<vname, vresult>>
listVars == <<files, fileDetails, hasError>>
serverVars == <<request, response>>
vars == <<variant, init, fs, pc, req, readContent, calls, outcome, invoked,
          scenario, script, results, vname, vresult,
          files, fileDetails, hasError, request, response>>

(***************************************************************************)
(* initializeDirectory: the constructor starts fs.mkdir(baseDir,           *)
(* {recursive: true}) and returns; this step is the completion of mkdir.   *)
(***************************************************************************)
\* the filesystem after a successful recursive mkdir of baseDir
MkdirBase(f) == [f EXCEPT ![baseDir] = DirEntry]

\* what initializeDirectory ends in, given mkdir's error ("" for success).
\* callback: the constructor passes no callback, so callback(...) throws a
\* TypeError inside the mkdir completion, in both branches, and the process
\* ends. The others: success resolves; failure rejects a promise nobody
\* handles, which ends the process or only warns, depending on the runtime.
initializeDirectoryEnd(v, e, end) ==
  IF v = "callback" THEN end = "crashed"
  ELSE IF e = "" THEN end = "ready"
  ELSE end = "failed" \/ end = "crashed"

\* the errors mkdir can complete with ("" for success): none when the
\* directory is there, else success or a refusal to create it
MkdirErrors == {"", "EACCES"}
InitEnds == {"crashed", "failed", "ready"}

initializeDirectory ==
  /\ init = "pending"
  /\ \E e \in MkdirErrors, end \in InitEnds :
       /\ EntryAt(fs, baseDir).kind = "dir" => e = ""
       /\ initializeDirectoryEnd(variant, e, end)
       /\ fs' = IF e = "" THEN MkdirBase(fs) ELSE fs
       /\ init' = end
  /\ UNCHANGED <<variant, reqVars, scriptVars, validatorVars, listVars, serverVars>>

(***************************************************************************)
(* The operations. The first action of each is the synchronous part of the *)
(* call (validation, then the first filesystem call is issued); each later *)
(* action is the completion of the filesystem call the request waits for.  *)
(***************************************************************************)
Running == init # "crashed"

\* the request ends: its caller is given o
Deliver(r, o) ==
  /\ pc' = [pc EXCEPT ![r] = "done"]
  /\ outcome' = [outcome EXCEPT ![r] = o]
  /\ invoked' = [invoked EXCEPT ![r] = invoked[r] + 1]

\* the pending call completes with error e and the request ends with o
Finish(r, e, o) ==
  /\ calls' = [calls EXCEPT ![r] = Completed(calls[r], e)]
  /\ Deliver(r, o)

\* the pending call completes and the request issues its next call
Continue(r, next, call) ==
  /\ calls' = [calls EXCEPT
       ![r] = Append(Completed(calls[r], ""), FsCall(call, PathJoin(baseDir, req[r].filename)))]
  /\ pc' = [pc EXCEPT ![r] = next]
  /\ UNCHANGED <<outcome, invoked>>

\* the call is made: rejected by the validator, or its first filesystem call
\* is issued
Begin(r, op, first, call) ==
  /\ pc[r] = "idle"
  /\ Running
  /\ req' = [req EXCEPT ![r] = op]
  /\ IF ~isValidFilename(op.filename)
       THEN /\ Deliver(r, NewError("Invalid filename"))
            /\ UNCHANGED calls
       ELSE /\ pc' = [pc EXCEPT ![r] = first]
            /\ calls' = [calls EXCEPT
                 ![r] = <<FsCall(call, PathJoin(baseDir, op.filename))>>]
            /\ UNCHANGED <<outcome, invoked>>
  /\ UNCHANGED <<variant, init, fs, readContent, scriptVars, validatorVars, listVars, serverVars>>

\* the call without the validator in front of it
BeginUnchecked(r, op, first, call) ==
  /\ pc[r] = "idle"
  /\ Running
  /\ req' = [req EXCEPT ![r] = op]
  /\ pc' = [pc EXCEPT ![r] = first]
  /\ calls' = [calls EXCEPT ![r] = <<FsCall(call, PathJoin(baseDir, op.filename))>>]
  /\ UNCHANGED <<variant, init, fs, readContent, outcome, invoked, scriptVars, validatorVars, listVars, serverVars>>

filePath(r) == PathJoin(baseDir, req[r].filename)

Waiting(r, op, at) == pc[r] = at /\ req[r].op = op /\ Running

\* ---- createFile(filename, content)
createFileUnchecked(r, filename, content) ==
  BeginUnchecked(r, CreateOp(filename, content), "access", "access")

createFile(r, filename, content) ==
  Begin(r, CreateOp(filename, content), "access", "access")

\* fs.access completed: 'File already exists' unless it failed with ENOENT
createFileAccessAlways(r) ==
  /\ Waiting(r, "create", "access")
  /\ Continue(r, "write", "writeFile")
  /\ UNCHANGED <<variant, init, fs, req, readContent, scriptVars, validatorVars, listVars, serverVars>>

\* a probe that empties the file it finds before it reports it
createFileAccessTruncates(r) ==
  /\ Waiting(r, "create", "access")
  /\ LET e == AccessError(fs, filePath(r))
     IN IF e = "" THEN /\ Finish(r, e, NewError("File already exists"))
                      /\ fs' = [fs EXCEPT ![filePath(r)] = FileEntry(<<>>)]
        ELSE IF e # "ENOENT" THEN Finish(r, e, FsError(e)) /\ UNCHANGED fs
        ELSE Continue(r, "write", "writeFile") /\ UNCHANGED fs
  /\ UNCHANGED <<variant, init, req, readContent, scriptVars, validatorVars,
                 listVars, serverVars>>

createFileAccess(r) ==
  /\ Waiting(r, "create", "access")
  /\ LET e == AccessError(fs, filePath(r))
     IN IF e = "" THEN Finish(r, e, NewError("File already exists"))
        ELSE IF e # "ENOENT" THEN Finish(r, e, FsError(e))
        ELSE Continue(r, "write", "writeFile")
  /\ UNCHANGED <<variant, init, fs, req, readContent, scriptVars, validatorVars, listVars, serverVars>>

\* size: content.length
createFileResult(content) == Success(Len(content), <<>>)

\* fs.writeFile completed
createFileWrite(r) ==
  /\ Waiting(r, "create", "write")
  /\ LET e == WriteError(fs, filePath(r))
     IN IF e # "" THEN /\ Finish(r, e, FsError(e))
                       /\ UNCHANGED fs
        ELSE /\ fs' = [fs EXCEPT ![filePath(r)] = FileEntry(EncodeUtf8(req[r].content))]
             /\ Finish(r, e, createFileResult(req[r].content))
  /\ UNCHANGED <<variant, init, req, readContent, scriptVars, validatorVars, listVars, serverVars>>

\* ---- readFile(filename)
readFile(r, filename) ==
  Begin(r, ReadOp(filename), "read", "readFile")

\* fs.readFile whose error is handed on as it is
readFileReadRaw(r) ==
  /\ Waiting(r, "read", "read")
  /\ LET e == ReadError(fs, filePath(r))
     IN IF e # ""
          THEN Finish(r, e, FsError(e)) /\ UNCHANGED readContent
        ELSE /\ readContent' = [readContent EXCEPT
                  ![r] = DecodeUtf8(EntryAt(fs, filePath(r)).data)]
             /\ Continue(r, "stat", "stat")
  /\ UNCHANGED <<variant, init, fs, req, scriptVars, validatorVars, listVars, serverVars>>

\* fs.readFile completed: ENOENT is 'File not found', in every copy
readFileRead(r) ==
  /\ Waiting(r, "read", "read")
  /\ LET e == ReadError(fs, filePath(r))
     IN IF e = "ENOENT"
          THEN Finish(r, e, NewError("File not found")) /\ UNCHANGED readContent
        ELSE IF e # ""
          THEN Finish(r, e, FsError(e)) /\ UNCHANGED readContent
        ELSE /\ readContent' = [readContent EXCEPT
                  ![r] = DecodeUtf8(EntryAt(fs, filePath(r)).data)]
             /\ Continue(r, "stat", "stat")
  /\ UNCHANGED <<variant, init, fs, req, scriptVars, validatorVars, listVars, serverVars>>

\* the error readFile ends with when fs.stat fails with code e: callback and
\* promise hand the raw error on; async and singleton run the one catch block
\* that turns every ENOENT into 'File not found'
readFileStatFailure(v, e) ==
  IF v = "callback" \/ v = "promise" THEN FsError(e)
  ELSE IF e = "ENOENT" THEN NewError("File not found")
  ELSE FsError(e)

\* size taken from content.length, as createFile does
readFileResultLength(content, size) == Success(Len(content), content)

\* content: what fs.readFile gave, size: stats.size
readFileResult(content, size) == Success(size, content)

\* fs.stat completed
readFileStat(r) ==
  /\ Waiting(r, "read", "stat")
  /\ LET e == StatError(fs, filePath(r))
     IN IF e # "" THEN Finish(r, e, readFileStatFailure(variant, e))
        ELSE Finish(r, e, readFileResult(readContent[r], StatSize(fs, filePath(r))))
  /\ UNCHANGED <<variant, init, fs, req, readContent, scriptVars, validatorVars, listVars, serverVars>>

\* ---- deleteFile(filename)
deleteFile(r, filename) ==
  Begin(r, DeleteOp(filename), "access", "access")

\* fs.access completed: ENOENT is 'File not found'
deleteFileAccess(r) ==
  /\ Waiting(r, "delete", "access")
  /\ LET e == AccessError(fs, filePath(r))
     IN IF e = "ENOENT" THEN Finish(r, e, NewError("File not found"))
        ELSE IF e # "" THEN Finish(r, e, FsError(e))
        ELSE Continue(r, "unlink", "unlink")
  /\ UNCHANGED <<variant, init, fs, req, readContent, scriptVars, validatorVars, listVars, serverVars>>

\* {filename, deleted: true, timestamp}
deleteFileResult == Success(0, <<>>)

\* unlink whose error is dropped
deleteFileUnlinkMasked(r) ==
  /\ Waiting(r, "delete", "unlink")
  /\ LET e == UnlinkError(fs, filePath(r))
     IN /\ fs' = IF e = "" THEN [fs EXCEPT ![filePath(r)] = NoEntry] ELSE fs
        /\ Finish(r, e, deleteFileResult)
  /\ UNCHANGED <<variant, init, req, readContent, scriptVars, validatorVars, listVars, serverVars>>

\* unlink that reports success and leaves the file
deleteFileUnlinkKeeps(r) ==
  /\ Waiting(r, "delete", "unlink")
  /\ LET e == UnlinkError(fs, filePath(r))
     IN IF e # "" THEN Finish(r, e, FsError(e)) ELSE Finish(r, e, deleteFileResult)
  /\ UNCHANGED <<variant, init, fs, req, readContent, scriptVars, validatorVars,
                 listVars, serverVars>>

\* fs.unlink completed
deleteFileUnlink(r) ==
  /\ Waiting(r, "delete", "unlink")
  /\ LET e == UnlinkError(fs, filePath(r))
     IN IF e # "" THEN /\ Finish(r, e, FsError(e))
                       /\ UNCHANGED fs
        ELSE /\ fs' = [fs EXCEPT ![filePath(r)] = NoEntry]
             /\ Finish(r, e, deleteFileResult)
  /\ UNCHANGED <<variant, init, req, readContent, scriptVars, validatorVars, listVars, serverVars>>

\* ---- listFiles()
\* no filename and no validation: fs.readdir(baseDir) is issued
listFiles(r) ==
  /\ pc[r] = "idle"
  /\ Running
  /\ req' = [req EXCEPT ![r] = ListOp]
  /\ pc' = [pc EXCEPT ![r] = "readdir"]
  /\ calls' = [calls EXCEPT ![r] = <<FsCall("readdir", baseDir)>>]
  /\ UNCHANGED <<variant, init, fs, readContent, outcome, invoked, scriptVars, validatorVars,
                 listVars, serverVars>>

\* the entry with size taken from the length of the decoded content
FileDetailLength(f, filename) ==
  [filename |-> filename,
   size |-> Len(DecodeUtf8(EntryAt(f, PathJoin(baseDir, filename)).data))]

\* {filename, size: stats.size, created, modified}
FileDetail(f, filename) ==
  [filename |-> filename, size |-> StatSize(f, PathJoin(baseDir, filename))]

\* the position of filename in names
IndexOf(names, filename) == CHOOSE k \in 1..Len(names) : names[k] = filename

\* details with d added, in the order of names
InOrder(names, details, d) ==
  LET all == {details[k] : k \in 1..Len(details)} \cup {d}
  IN [k \in 1..(Len(details) + 1) |->
        CHOOSE x \in all :
          Cardinality({y \in all : IndexOf(names, y.filename) < IndexOf(names, x.filename)})
            = k - 1]

\* fileDetails after the stat of one more entry succeeded. callback:
\* fileDetails.push(...) in the completion of fs.stat, so in completion order;
\* the others: Promise.all keeps the order of files
listFilesPush(v, names, details, d) ==
  IF v = "callback" THEN Append(details, d) ELSE InOrder(names, details, d)

\* what listFiles does when readdir gave no name. callback: files.forEach
\* runs no body, so the callback is not invoked; the others: Promise.all([])
\* resolves with []
listFilesEmpty(v, r) ==
  IF v = "callback" THEN pc' = [pc EXCEPT ![r] = "stats"] /\ UNCHANGED <<outcome, invoked>>
  ELSE Deliver(r, Listed(<<>>))

\* fs.readdir completed: one fs.stat is issued per name, all at once
listFilesReaddir(r) ==
  /\ Waiting(r, "list", "readdir")
  /\ LET e == ReaddirError(fs)
         names == Readdir(fs)
     IN IF e # "" THEN Finish(r, e, FsError(e)) /\ UNCHANGED files
        ELSE /\ files' = [files EXCEPT ![r] = names]
             /\ calls' = [calls EXCEPT
                  ![r] = Completed(calls[r], "")
                           \o [k \in 1..Len(names) |->
                                 FsCall("stat", PathJoin(baseDir, names[k]))]]
             /\ IF Len(names) = 0 THEN listFilesEmpty(variant, r)
                ELSE pc' = [pc EXCEPT ![r] = "stats"] /\ UNCHANGED <<outcome, invoked>>
  /\ UNCHANGED <<variant, init, fs, req, readContent, fileDetails, hasError,
                 scriptVars, validatorVars, serverVars>>

\* a stat failure that is dropped: nothing is delivered for it
listFilesStatIgnoreError(r, i) ==
  /\ req[r].op = "list"
  /\ pc[r] = "stats" \/ pc[r] = "done"
  /\ Running
  /\ i \in 1..Len(files[r])
  /\ calls[r][i + 1].error = "pending"
  /\ LET e == StatError(fs, calls[r][i + 1].path)
         details == listFilesPush(variant, files[r], fileDetails[r],
                                  FileDetail(fs, files[r][i]))
     IN /\ calls' = [calls EXCEPT ![r][i + 1].error = e]
        /\ IF e # "" THEN UNCHANGED <<pc, outcome, invoked, fileDetails, hasError>>
           ELSE /\ fileDetails' = [fileDetails EXCEPT ![r] = details]
                /\ UNCHANGED hasError
                /\ IF Len(details) = Len(files[r]) THEN Deliver(r, Listed(details))
                   ELSE UNCHANGED <<pc, outcome, invoked>>
  /\ UNCHANGED <<variant, init, fs, req, readContent, files,
                 scriptVars, validatorVars, serverVars>>

\* the completion without the guard of hasError: every failure is delivered
listFilesStatUnguarded(r, i) ==
  /\ req[r].op = "list"
  /\ pc[r] = "stats" \/ pc[r] = "done"
  /\ Running
  /\ i \in 1..Len(files[r])
  /\ calls[r][i + 1].error = "pending"
  /\ LET e == StatError(fs, calls[r][i + 1].path)
         details == listFilesPush(variant, files[r], fileDetails[r],
                                  FileDetail(fs, files[r][i]))
     IN /\ calls' = [calls EXCEPT ![r][i + 1].error = e]
        /\ IF e # ""
             THEN /\ hasError' = [hasError EXCEPT ![r] = TRUE]
                  /\ Deliver(r, FsError(e))
                  /\ UNCHANGED fileDetails
           ELSE /\ fileDetails' = [fileDetails EXCEPT ![r] = details]
                /\ UNCHANGED hasError
                /\ IF Len(details) = Len(files[r]) THEN Deliver(r, Listed(details))
                   ELSE UNCHANGED <<pc, outcome, invoked>>
  /\ UNCHANGED <<variant, init, fs, req, readContent, files,
                 scriptVars, validatorVars, serverVars>>

\* fs.stat of files[i] completed. After a failure nothing more is delivered
\* (callback: 'if (hasError) return'; the others: the promise is settled).
\* The first failure is delivered at once; the result is delivered when the
\* last stat has succeeded.
listFilesStat(r, i) ==
  /\ req[r].op = "list"
  /\ pc[r] = "stats" \/ pc[r] = "done"
  /\ Running
  /\ i \in 1..Len(files[r])
  /\ calls[r][i + 1].error = "pending"
  /\ LET e == StatError(fs, calls[r][i + 1].path)
         details == listFilesPush(variant, files[r], fileDetails[r],
                                  FileDetail(fs, files[r][i]))
     IN /\ calls' = [calls EXCEPT ![r][i + 1].error = e]
        /\ IF hasError[r] THEN UNCHANGED <<pc, outcome, invoked, fileDetails, hasError>>
           ELSE IF e # ""
             THEN /\ hasError' = [hasError EXCEPT ![r] = TRUE]
                  /\ Deliver(r, FsError(e))
                  /\ UNCHANGED fileDetails
           ELSE /\ fileDetails' = [fileDetails EXCEPT ![r] = details]
                /\ UNCHANGED hasError
                /\ IF Len(details) = Len(files[r]) THEN Deliver(r, Listed(details))
                   ELSE UNCHANGED <<pc, outcome, invoked>>
  /\ UNCHANGED <<variant, init, fs, req, readContent, files,
                 scriptVars, validatorVars, serverVars>>

\* the completion of whatever filesystem call the listFiles of request r
\* waits for
ListStep(r) ==
  \/ listFilesReaddir(r)
  \/ \E i \in 1..Len(files[r]) : listFilesStat(r, i)

\* the caller takes its result; the slot is free for the next call
Release(r) ==
  /\ pc[r] = "done"
  /\ Running
  /\ pc' = [pc EXCEPT ![r] = "idle"]
  /\ req' = [req EXCEPT ![r] = NoRequest]
  /\ readContent' = [readContent EXCEPT ![r] = <<>>]
  /\ calls' = [calls EXCEPT ![r] = <<>>]
  /\ outcome' = [outcome EXCEPT ![r] = NoOutcome]
  /\ invoked' = [invoked EXCEPT ![r] = 0]
  /\ files' = [files EXCEPT ![r] = <<>>]
  /\ fileDetails' = [fileDetails EXCEPT ![r] = <<>>]
  /\ hasError' = [hasError EXCEPT ![r] = FALSE]
  /\ UNCHANGED <<variant, init, fs, validatorVars>>

Return(r) ==
  /\ Release(r)
  /\ UNCHANGED <<scriptVars, serverVars>>

\* the completion of whatever filesystem call request r waits for
Step(r) ==
  \/ createFileAccess(r)
  \/ createFileWrite(r)
  \/ readFileRead(r)
  \/ readFileStat(r)
  \/ deleteFileAccess(r)
  \/ deleteFileUnlink(r)

(***************************************************************************)
(* Inputs.                                                                 *)
(***************************************************************************)
SeqsUpTo(S, n) == UNION {[1..k -> S] : k \in 0..n}

\* filenames of the requests: two the validator accepts, and rejected ones
ValidNames == {<<"a">>, <<"b">>}
InvalidNames == {<<>>, <<".">>, <<".", ".">>, <<".", ".", "/", "a">>}
Names == ValidNames \cup InvalidNames
\* the filenames of the callers of Spec: they contend for one file
CallNames == {<<"a">>} \cup InvalidNames

\* contents of the concurrent runs: "hi" and "e-acute" (one unit, two bytes)
SmallContents == {<<104, 105>>, <<233>>}

\* code units of the scripted runs: 'a', e-acute (2 bytes), euro sign (3 bytes),
\* and the two surrogates of U+1F600 (4 bytes as a pair, unpaired otherwise)
ContentAlphabet == {97, 233, 8364, 55357, 56832}
AllContents == SeqsUpTo(ContentAlphabet, MaxContentLen)

Prefixes(p) == {SubSeq(p, 1, k) : k \in 0..Len(p)}

\* every path the model's filesystem holds an entry for
FsPaths ==
  UNION {Prefixes(PathJoin(baseDir, n)) : n \in Names} \cup Prefixes(Dirname)

SmallEntries == {NoEntry} \cup {FileEntry(EncodeUtf8(c)) : c \in SmallContents}

\* a filesystem: the directories above baseDir exist, baseDir is base, and
\* children maps filenames to the entries directly under it
MakeFs(base, children) ==
  [p \in FsPaths |->
     IF p \in Prefixes(Dirname) THEN DirEntry
     ELSE IF p = baseDir THEN base
     ELSE IF \E n \in DOMAIN children : p = PathJoin(baseDir, n)
       THEN children[CHOOSE n \in DOMAIN children : p = PathJoin(baseDir, n)]
     ELSE NoEntry]

\* the filesystems a process may find when it starts: no base directory yet,
\* or one left by an earlier run with any files in it
InitialFs ==
  {MakeFs(NoEntry, [n \in ValidNames |-> NoEntry])}
    \cup {MakeFs(DirEntry, ch) : ch \in [ValidNames -> SmallEntries]}

(***************************************************************************)
(* Init: the state right after `new FileManager...()`: mkdir is pending.   *)
(***************************************************************************)
Setup(sc, scr, f) ==
  /\ variant \in Variants
  /\ init = "pending"
  /\ fs = f
  /\ pc = [r \in Req |-> "idle"]
  /\ req = [r \in Req |-> NoRequest]
  /\ readContent = [r \in Req |-> <<>>]
  /\ calls = [r \in Req |-> <<>>]
  /\ outcome = [r \in Req |-> NoOutcome]
  /\ invoked = [r \in Req |-> 0]
  /\ scenario = sc
  /\ script = scr
  /\ results = [r \in Req |-> <<>>]
  /\ vresult = "none"
  /\ files = [r \in Req |-> <<>>]
  /\ fileDetails = [r \in Req |-> <<>>]
  /\ hasError = [r \in Req |-> FALSE]
  /\ response = [r \in Req |-> NoResponse]

NoScript == [r \in Req |-> <<>>]

\* the filesystems Spec starts from
CallFs ==
  {MakeFs(NoEntry, [n \in ValidNames |-> NoEntry])}
    \cup {MakeFs(DirEntry, [n \in ValidNames |-> IF n = <<"a">> THEN e ELSE NoEntry]) :
            e \in SmallEntries}

Init ==
  /\ \E f \in CallFs : Setup("free", NoScript, f)
  /\ vname = <<>>
  /\ request = [r \in Req |-> NoHttpRequest]

(***************************************************************************)
(* Spec: every request slot is a caller that makes any call at any time.   *)
(***************************************************************************)
Call(r) ==
  \/ \E n \in CallNames, c \in SmallContents : createFile(r, n, c)
  \/ \E n \in CallNames : readFile(r, n)
  \/ \E n \in CallNames : deleteFile(r, n)

Next ==
  \/ initializeDirectory
  \/ \E r \in Req : Call(r)
  \/ \E r \in Req : Step(r)
  \/ \E r \in Req : Return(r)

Spec == Init /\ [][Next]_vars

(***************************************************************************)
(* Failure kinds, as the spec names them. A failure is told apart by its   *)
(* message; every other error is a StorageFailure.                         *)
(***************************************************************************)
IsInvalidName(o) == o.status = "error" /\ o.message = "Invalid filename"
IsAlreadyExists(o) == o.status = "error" /\ o.message = "File already exists"
IsNotFound(o) == o.status = "error" /\ o.message = "File not found"
IsStorageFailure(o) ==
  /\ o.status = "error"
  /\ o.message # "Invalid filename"
  /\ o.message # "File already exists"
  /\ o.message # "File not found"

\* p is a direct child of the base directory
IsDirectChild(p) == Len(p) = Len(baseDir) + 1 /\ Parent(p) = baseDir

(***************************************************************************)
(* Claims checked under Spec.                                              *)
(***************************************************************************)
\* C1: create never overwrites: the step in which a create call's writeFile
\* succeeds is never taken while an entry exists at the path it writes.
C1_CreateNeverOverwrites ==
  [][\A r \in Req :
       (/\ req[r].op = "create"
        /\ pc[r] = "write"
        /\ pc'[r] = "done"
        /\ outcome'[r].status = "ok")
       => EntryAt(fs, filePath(r)).kind = "none"]_vars

\* C3: a read whose content read succeeded and whose stat failed with ENOENT
\* (the file was deleted in between) ends with 'File not found'.
C3_ReadDeletedBeforeStatIsNotFound ==
  \A r \in Req :
    (/\ req[r].op = "read"
     /\ pc[r] = "done"
     /\ Len(calls[r]) = 2
     /\ calls[r][1].error = ""
     /\ calls[r][2].error = "ENOENT")
    => IsNotFound(outcome[r])

\* a request whose filename the validator rejects has ended with
\* 'Invalid filename' and has issued no filesystem call
RejectedCleanly(r) ==
  (req[r].op # "none" /\ ~isValidFilename(req[r].filename))
  => (pc[r] = "done" /\ IsInvalidName(outcome[r]) /\ calls[r] = <<>>)

\* C4: the validator runs before any filesystem call: the step that makes a
\* create, read or delete call with a rejected filename ends the call with
\* InvalidName, issues no filesystem call and leaves the filesystem as it was,
\* and such a request never has a filesystem call afterwards either.
C4_ValidatorBeforeFilesystem ==
  [][\A r \in Req :
       /\ (pc[r] = "idle" /\ pc'[r] # "idle" /\ ~isValidFilename(req'[r].filename))
            => (fs' = fs /\ calls'[r] = <<>>)
       /\ RejectedCleanly(r)']_vars

\* C4 witness: a delete call with the filename '..' has ended with InvalidName
C4_Witness ==
  \E r \in Req :
    /\ req[r] = DeleteOp(<<".", ".">>)
    /\ pc[r] = "done"
    /\ IsInvalidName(outcome[r])
    /\ calls[r] = <<>>

\* C5: every path passed to a filesystem call is the base directory joined
\* with a filename the validator accepted, and is a direct child of it.
C5_PathsAreDirectChildren ==
  \A r \in Req : \A i \in 1..Len(calls[r]) :
    /\ isValidFilename(req[r].filename)
    /\ calls[r][i].path = PathJoin(baseDir, req[r].filename)
    /\ IsDirectChild(calls[r][i].path)
    /\ calls[r][i].path \notin Prefixes(baseDir)

\* C5 witness: a request has issued its second filesystem call
C5_Witness ==
  \E r \in Req : Len(calls[r]) = 2 /\ IsDirectChild(calls[r][2].path)

\* C12: a read whose fs.readFile completes while no file is at the name ends
\* right there with NotFound, returns no result, and leaves every file as it
\* was, in every copy of the module.
C12_ReadMissingIsNotFound ==
  [][\A r \in Req :
       (/\ req[r].op = "read"
        /\ pc[r] = "read"
        /\ pc'[r] # "read"
        /\ EntryAt(fs, filePath(r)).kind = "none")
       => (/\ pc'[r] = "done"
           /\ IsNotFound(outcome'[r])
           /\ outcome'[r].content = <<>>
           /\ fs' = fs)]_vars

\* C12 witness: a read of a name without a file has ended with NotFound after
\* its one filesystem call failed with ENOENT, the base directory being there
C12_Witness ==
  \E r \in Req :
    /\ req[r] = ReadOp(<<"a">>)
    /\ pc[r] = "done"
    /\ IsNotFound(outcome[r])
    /\ Len(calls[r]) = 1
    /\ calls[r][1].error = "ENOENT"
    /\ EntryAt(fs, baseDir).kind = "dir"
    /\ EntryAt(fs, filePath(r)).kind = "none"

\* C16: a filesystem call of an operation is issued only after
\* initializeDirectory has completed successfully: never while the mkdir of
\* the base directory is pending, and never after it failed.
C16_NoCallBeforeInitialized ==
  [][\A r \in Req : Len(calls'[r]) > Len(calls[r]) => init = "ready"]_vars

\* C17: when the mkdir of the base directory succeeds (the directory is
\* there when initializeDirectory ends), initialization ends without an
\* error, in every copy of the module, and the entries of the filesystem
\* other than the base directory are as they were.
C17_ConstructionIsSafe ==
  [][(init = "pending" /\ init' # "pending" /\ EntryAt(fs', baseDir).kind = "dir")
       => (/\ init' = "ready"
           /\ \A p \in DOMAIN fs : p # baseDir => fs'[p] = fs[p])]_vars

\* the three variants of src/src/week3_async_patterns_evolution.js
EvolutionVariants == {"async", "callback", "promise"}

\* C22: the callback, promise and async variants deliver the same outcome
\* for the same call and the same filesystem outcomes: what a read whose
\* stat failed has delivered is what each of the three variants delivers for
\* that stat error.
C22_VariantsAgree ==
  \A r \in Req :
    (/\ variant \in EvolutionVariants
     /\ req[r].op = "read"
     /\ pc[r] = "done"
     /\ Len(calls[r]) = 2
     /\ calls[r][2].error # "")
    => \A v \in EvolutionVariants :
         readFileStatFailure(v, calls[r][2].error) = outcome[r]

(***************************************************************************)
(* The HTTP server of src/src/server.js, in front of the singleton module. *)
(***************************************************************************)
ApiFiles == <<"/", "a", "p", "i", "/", "f", "i", "l", "e", "s">>
HealthPath == <<"/", "h", "e", "a", "l", "t", "h">>

\* sendJsonResponse(res, statusCode, data) for a body that is no error: kind
\* names what data is
sendJsonResponse(statusCode, kind) ==
  [error |-> "", kind |-> kind, status |-> 0, statusCode |-> statusCode]

\* handleError without the line of 'File already exists'
handleErrorNoConflict(message) ==
  LET statusCode == IF message = "File not found" THEN 404
                    ELSE IF message = "Invalid filename" THEN 400
                    ELSE IF message = "Invalid JSON" THEN 400
                    ELSE 500
  IN [error |-> IF message = "" THEN "Internal Server Error" ELSE message,
      kind |-> "error", status |-> statusCode, statusCode |-> statusCode]

\* handleError(res, error): the status is chosen by the message
handleError(message) ==
  LET statusCode == IF message = "File not found" THEN 404
                    ELSE IF message = "Invalid filename" THEN 400
                    ELSE IF message = "File already exists" THEN 409
                    ELSE IF message = "Invalid JSON" THEN 400
                    ELSE 500
  IN [error |-> IF message = "" THEN "Internal Server Error" ELSE message,
      kind |-> "error", status |-> statusCode, statusCode |-> statusCode]

\* !body.filename, !body.content: the field is absent or the empty string
Falsy(body, field) ==
  \/ field \notin body.has
  \/ field = "filename" /\ body.filename = <<>>
  \/ field = "content" /\ body.content = <<>>

\* path.split('/').pop()
LastSegment(path) ==
  LET segs == SplitSlash(path, <<>>, <<>>) IN segs[Len(segs)]

\* the route of a request: the module call it leads to, or "throw" with the
\* message of the error thrown in the handler, or "health"
Route(q) ==
  IF StartsWith(q.path, ApiFiles)
    THEN IF q.method = "POST" /\ q.path = ApiFiles
           THEN IF q.body.kind = "malformed"
                  THEN [kind |-> "throw", message |-> "Invalid JSON"]
                ELSE IF q.body.kind = "null"
                  THEN [kind |-> "throw",
                        message |-> "Cannot read properties of null (reading 'filename')"]
                ELSE IF Falsy(q.body, "filename") \/ Falsy(q.body, "content")
                  THEN [kind |-> "throw", message |-> "Filename and content are required"]
                ELSE [kind |-> "create", message |-> ""]
         ELSE IF q.method = "GET" /\ q.path = ApiFiles
           THEN [kind |-> "list", message |-> ""]
         ELSE IF q.method = "GET" /\ StartsWith(q.path, Append(ApiFiles, "/"))
           THEN [kind |-> "read", message |-> ""]
         ELSE IF q.method = "DELETE" /\ StartsWith(q.path, Append(ApiFiles, "/"))
           THEN [kind |-> "delete", message |-> ""]
         ELSE [kind |-> "throw", message |-> "Method not allowed"]
  ELSE IF q.path = HealthPath THEN [kind |-> "health", message |-> ""]
  ELSE [kind |-> "throw", message |-> "Not found"]

\* the request of slot r is received and not yet handled
Received(r) ==
  /\ request[r] # NoHttpRequest
  /\ response[r] = NoResponse
  /\ pc[r] = "idle"
  /\ Running

\* the handler calls the module and awaits the result
ServerCall(r) ==
  /\ Received(r)
  /\ LET q == request[r]
         to == Route(q).kind
     IN \/ to = "create" /\ createFile(r, q.body.filename, q.body.content)
        \/ to = "list" /\ listFiles(r)
        \/ to = "read" /\ readFile(r, LastSegment(q.path))
        \/ to = "delete" /\ deleteFile(r, LastSegment(q.path))

\* the handler answers without calling the module: the health check, or an
\* error thrown in the handler and caught by its catch block
ServerReply(r) ==
  /\ Received(r)
  /\ LET to == Route(request[r])
     IN \/ /\ to.kind = "health"
           /\ response' = [response EXCEPT ![r] = sendJsonResponse(200, "health")]
        \/ /\ to.kind = "throw"
           /\ response' = [response EXCEPT ![r] = handleError(to.message)]
  /\ UNCHANGED <<variant, init, fs, reqVars, scriptVars, validatorVars, listVars, request>>

\* the module call has ended: its result is sent, or its error goes to
\* handleError
ServerRespond(r) ==
  /\ pc[r] = "done"
  /\ response[r] = NoResponse
  /\ Running
  /\ response' = [response EXCEPT
       ![r] = IF outcome[r].status = "error" THEN handleError(outcome[r].message)
              ELSE IF req[r].op = "create" THEN sendJsonResponse(201, "result")
              ELSE IF req[r].op = "list" THEN sendJsonResponse(200, "files")
              ELSE sendJsonResponse(200, "result")]
  /\ UNCHANGED <<variant, init, fs, reqVars, scriptVars, validatorVars, listVars, request>>

(***************************************************************************)
(* SpecServer: the first slot receives any one of the requests below, the  *)
(* others receive none or a request that deletes or creates the file the   *)
(* first may work on.                                                      *)
(***************************************************************************)
Methods == {"DELETE", "GET", "POST", "PUT"}

RequestPaths ==
  {ApiFiles, ApiFiles \o <<"/", "a">>, ApiFiles \o <<"/">>, ApiFiles \o <<"x">>,
   HealthPath, <<"/", "x">>}

RequestBodies ==
  {EmptyBody, Body("malformed", {}, <<>>, <<>>), Body("null", {}, <<>>, <<>>)}
    \cup {Body("object", {}, <<>>, <<>>)}
    \cup {Body("object", {"filename"}, n, <<>>) : n \in {<<"a">>, <<".", ".">>, <<>>}}
    \cup {Body("object", {"content"}, <<>>, c) : c \in {<<104, 105>>, <<>>}}
    \cup {Body("object", {"content", "filename"}, n, c) :
            n \in {<<"a">>, <<".", ".">>}, c \in {<<104, 105>>, <<>>}}

HttpRequests ==
  {HttpRequest("POST", ApiFiles, b) : b \in RequestBodies}
    \cup {HttpRequest(m, p, EmptyBody) : m \in Methods, p \in RequestPaths}

OtherRequests ==
  {NoHttpRequest,
   HttpRequest("DELETE", ApiFiles \o <<"/", "a">>, EmptyBody),
   HttpRequest("POST", ApiFiles, Body("object", {"content", "filename"}, <<"a">>, <<233>>))}

InitServer ==
  /\ \E f \in CallFs : Setup("server", NoScript, f)
  /\ variant = "singleton"
  /\ vname = <<>>
  /\ \E q \in HttpRequests, o \in OtherRequests :
       request = [r \in Req |-> IF r = 1 THEN q ELSE IF r = 2 THEN o ELSE NoHttpRequest]

NextServer ==
  \/ initializeDirectory
  \/ \E r \in Req : ServerCall(r)
  \/ \E r \in Req : ServerReply(r)
  \/ \E r \in Req : Step(r)
  \/ \E r \in Req : ListStep(r)
  \/ \E r \in Req : ServerRespond(r)

SpecServer == InitServer /\ [][NextServer]_vars

\* the request of slot r has been answered with an error
ErrorSent(r) == response[r].kind = "error"

\* C18: every error response carries in its body the status code it is sent
\* with; a module failure is answered by its kind: InvalidName 400,
\* AlreadyExists 409, NotFound 404, every other (a StorageFailure) 500; and a
\* POST /api/files whose body does not parse is answered 400 'Invalid JSON'.
C18_FailureKindToStatus ==
  \A r \in Req :
    /\ ErrorSent(r) => response[r].status = response[r].statusCode
    /\ (ErrorSent(r) /\ pc[r] = "done")
         => (/\ outcome[r].status = "error"
             /\ response[r].error = outcome[r].message
             /\ IsInvalidName(outcome[r]) => response[r].statusCode = 400
             /\ IsAlreadyExists(outcome[r]) => response[r].statusCode = 409
             /\ IsNotFound(outcome[r]) => response[r].statusCode = 404
             /\ IsStorageFailure(outcome[r]) => response[r].statusCode = 500)
    /\ (/\ response[r] # NoResponse
        /\ request[r].method = "POST"
        /\ request[r].path = ApiFiles
        /\ request[r].body.kind = "malformed")
         => (/\ ErrorSent(r)
             /\ response[r].statusCode = 400
             /\ response[r].error = "Invalid JSON")
    /\ (pc[r] = "done" /\ outcome[r].status = "error" /\ response[r] # NoResponse)
         => ErrorSent(r)

\* C18 witness: a create of a name that has a file was answered 409, and
\* then a delete of the file 200
C18_Witness ==
  \E r \in Req : \E t \in Req :
    /\ ErrorSent(r)
    /\ IsAlreadyExists(outcome[r])
    /\ response[r].statusCode = 409
    /\ response[r].status = 409
    /\ req[t].op = "delete"
    /\ response[t].statusCode = 200

\* C19: a POST /api/files whose body parses and lacks filename or content is
\* answered 400 'Filename and content are required', and creates no file.
C19_MissingFieldsIs400 ==
  \A r \in Req :
    (/\ response[r] # NoResponse
     /\ request[r].method = "POST"
     /\ request[r].path = ApiFiles
     /\ request[r].body.kind = "object" \/ request[r].body.kind = "empty"
     /\ "filename" \notin request[r].body.has \/ "content" \notin request[r].body.has)
    => (/\ response[r].statusCode = 400
        /\ response[r].error = "Filename and content are required"
        /\ calls[r] = <<>>)

\* the four file routes: POST and GET /api/files, GET and DELETE /api/files/:name
IsFileRoute(q) ==
  \/ q.path = ApiFiles /\ (q.method = "POST" \/ q.method = "GET")
  \/ /\ StartsWith(q.path, Append(ApiFiles, "/"))
     /\ q.method = "GET" \/ q.method = "DELETE"

\* C20: a request whose path is neither under /api/files nor /health is
\* answered 404 'Not found' whatever its method; a request under /api/files
\* that is none of the four file routes is answered 'Method not allowed'
\* with status 405 or 500.
C20_UnknownRoutes ==
  \A r \in Req :
    response[r] # NoResponse =>
      /\ (~StartsWith(request[r].path, ApiFiles) /\ request[r].path # HealthPath)
           => (response[r].statusCode = 404 /\ response[r].error = "Not found")
      /\ (StartsWith(request[r].path, ApiFiles) /\ ~IsFileRoute(request[r]))
           => (/\ response[r].error = "Method not allowed"
               /\ response[r].statusCode = 405 \/ response[r].statusCode = 500)

\* the fixed messages of the module and of the router
FixedMessages ==
  {"Failed to initialize file system", "File already exists", "File not found",
   "Filename and content are required", "Internal Server Error", "Invalid JSON",
   "Invalid filename", "Method not allowed", "Not found"}

\* C24: the message in the body of the error response to a failed module
\* call is one of the fixed messages of the module and of the router, never
\* the message of a raw filesystem error.
C24_OnlyFixedMessages ==
  \A r \in Req :
    (ErrorSent(r) /\ pc[r] = "done") =>
      /\ response[r].error \in FixedMessages
      /\ outcome[r].code # "" => response[r].error # RawMessage(outcome[r].code)

\* C28: a POST /api/files whose body carries both filename and content, the
\* filename valid, is not rejected as missing required fields, whatever the
\* content, the empty string included; it is passed to create, and answered
\* 201 when the create succeeds.
C28_BothFieldsAreAccepted ==
  \A r \in Req :
    (/\ response[r] # NoResponse
     /\ request[r].method = "POST"
     /\ request[r].path = ApiFiles
     /\ request[r].body.kind = "object"
     /\ request[r].body.has = {"content", "filename"}
     /\ isValidFilename(request[r].body.filename))
    => (/\ response[r].error # "Filename and content are required"
        /\ req[r] = CreateOp(request[r].body.filename, request[r].body.content)
        /\ outcome[r].status = "ok" => response[r].statusCode = 201)

(***************************************************************************)
(* SpecValidator: isValidFilename applied to one filename, drawn from all  *)
(* short filenames over a small alphabet and from filenames around the     *)
(* length limit.                                                           *)
(***************************************************************************)
ValidatorAlphabet == {"a", "Z", "7", "-", "_", ".", "/", "\\", " "}

\* s followed by 'x' up to length n
Pad(s, n) == [i \in 1..n |-> IF i <= Len(s) THEN s[i] ELSE "x"]

ShortNames == SeqsUpTo(ValidatorAlphabet, MaxNameLen)

LongNames ==
  {Pad(s, MaxFilenameLength + d) : s \in SeqsUpTo(ValidatorAlphabet, 1), d \in {-1, 0, 1}}

ValidatorInputs == ShortNames \cup LongNames

InitValidator ==
  /\ Setup("validator", NoScript, MakeFs(NoEntry, [n \in ValidNames |-> NoEntry]))
  /\ vname \in ValidatorInputs
  /\ request = [r \in Req |-> NoHttpRequest]

Validate ==
  /\ vresult = "none"
  /\ vresult' = IF isValidFilename(vname) THEN "true" ELSE "false"
  /\ UNCHANGED <<variant, init, fs, reqVars, scriptVars, vname, listVars, serverVars>>

NextValidator == Validate

SpecValidator == InitValidator /\ [][NextValidator]_vars

\* C6: the validator rejects every filename that is empty, longer than 255
\* characters, contains '/', '\' or '..', or starts with '.'.
C6_ValidatorRejects ==
  (/\ vresult # "none"
   /\ \/ Len(vname) = 0
      \/ Len(vname) > 255
      \/ \E i \in 1..Len(vname) : vname[i] = "/"
      \/ \E i \in 1..Len(vname) : vname[i] = "\\"
      \/ \E i \in 1..(Len(vname) - 1) : vname[i] = "." /\ vname[i + 1] = "."
      \/ (Len(vname) >= 1 /\ vname[1] = "."))
  => vresult = "false"

\* C6 witness: a filename of 256 accepted characters has been rejected
C6_Witness ==
  /\ vresult = "false"
  /\ Len(vname) = 256
  /\ \A i \in 1..Len(vname) : (vname[i] = "a" \/ vname[i] = "x")

\* the filenames the spec says are valid: 1 to 255 letters, digits, '-', '_'
\* and '.', not starting with '.' and without '..'
SpecValidName(n) ==
  /\ Len(n) >= 1
  /\ Len(n) <= 255
  /\ \A i \in 1..Len(n) :
       n[i] \in Lower \/ n[i] \in Upper \/ n[i] \in Digit
         \/ n[i] = "-" \/ n[i] = "_" \/ n[i] = "."
  /\ n[1] # "."
  /\ \A i \in 1..(Len(n) - 1) : ~(n[i] = "." /\ n[i + 1] = ".")

\* C7: the validator accepts exactly the filenames of length 1 to 255 made of
\* letters, digits, '-', '_' and '.' that neither start with '.' nor contain '..'.
C7_ValidatorAcceptsExactly ==
  vresult # "none" => (vresult = "true" <=> SpecValidName(vname))

\* C7 witness: 'a.7' and a filename of 255 characters have been accepted
C7_Witness ==
  /\ vresult = "true"
  /\ (vname = <<"a", ".", "7">> \/ (Len(vname) = 255 /\ vname[1] = "-"))

(***************************************************************************)
(* SpecScript: scripted callers. Each request slot is a caller that makes  *)
(* the calls of its script one after another, each after the previous one  *)
(* has completed (as the callers of src/src/test.evolution.js do), and     *)
(* keeps what each call gave. A run is one of these workloads:             *)
(*   twoDeletes    two callers delete the same existing file               *)
(*   roundTrip     one caller creates a file and reads it, while another   *)
(*                 makes at most one call on the other filename            *)
(*   repeatCreate  one caller creates again and again a file that exists   *)
(***************************************************************************)
\* the completed call of slot r, as its caller keeps it
Record(r) == [calls |-> calls[r], op |-> req[r], outcome |-> outcome[r]]

\* the calls slot r has completed so far, the one not yet taken included
History(r) == results[r] \o (IF pc[r] = "done" THEN <<Record(r)>> ELSE <<>>)

ScriptCall(r) ==
  /\ Len(results[r]) < Len(script[r])
  /\ LET op == script[r][Len(results[r]) + 1]
     IN \/ op.op = "create" /\ createFile(r, op.filename, op.content)
        \/ op.op = "read" /\ readFile(r, op.filename)
        \/ op.op = "delete" /\ deleteFile(r, op.filename)
        \/ op.op = "list" /\ listFiles(r)

ScriptReturn(r) ==
  /\ Release(r)
  /\ results' = [results EXCEPT ![r] = Append(results[r], Record(r))]
  /\ UNCHANGED <<scenario, script, serverVars>>

\* what the second caller of roundTrip does: nothing, or one call on another name
Bystanders(n) ==
  {<<>>}
    \cup {<<CreateOp(m, <<104, 105>>)>> : m \in ValidNames \ {n}}
    \cup {<<ReadOp(m)>> : m \in ValidNames \ {n}}
    \cup {<<DeleteOp(m)>> : m \in ValidNames \ {n}}

InitTwoDeletes ==
  \E n \in ValidNames, ch \in [ValidNames -> SmallEntries] :
    /\ ch[n].kind = "file"
    /\ Setup("twoDeletes",
             [r \in Req |-> IF r <= 2 THEN <<DeleteOp(n)>> ELSE <<>>],
             MakeFs(DirEntry, ch))

\* the filesystems roundTrip starts from
RoundTripFs ==
  {MakeFs(NoEntry, [n \in ValidNames |-> NoEntry])}
    \cup {MakeFs(DirEntry, ch) :
            ch \in [ValidNames -> {NoEntry, FileEntry(EncodeUtf8(<<104, 105>>))}]}

InitRoundTrip ==
  \E n \in ValidNames, c \in AllContents, f \in RoundTripFs : \E by \in Bystanders(n) :
    Setup("roundTrip",
          [r \in Req |-> IF r = 1 THEN <<CreateOp(n, c), ReadOp(n)>>
                         ELSE IF r = 2 THEN by ELSE <<>>],
          f)

InitRepeatCreate ==
  \E n \in ValidNames, cs \in [1..MaxRepeat -> SmallContents],
     ch \in [ValidNames -> SmallEntries] :
    /\ ch[n].kind = "file"
    /\ Setup("repeatCreate",
             [r \in Req |-> IF r = 1 THEN [i \in 1..MaxRepeat |-> CreateOp(n, cs[i])]
                            ELSE <<>>],
             MakeFs(DirEntry, ch))

\* a base directory that is absent, or there with any file at the names
\* other than n and nothing at n
FsWithout(n) ==
  {MakeFs(NoEntry, [m \in ValidNames |-> NoEntry])}
    \cup {MakeFs(DirEntry, ch) : ch \in {c \in [ValidNames -> SmallEntries] : c[n] = NoEntry}}

InitDeleteLifecycle ==
  \E n \in ValidNames, c \in SmallContents : \E f \in FsWithout(n) :
    Setup("deleteLifecycle",
          [r \in Req |-> IF r = 1
                           THEN <<DeleteOp(n), CreateOp(n, c)>>
                                  \o [i \in 1..MaxRepeat |-> DeleteOp(n)]
                           ELSE <<>>],
          f)

\* the base directory absent, or there with any file at each name
AnyFs ==
  {MakeFs(NoEntry, [m \in ValidNames |-> NoEntry])}
    \cup {MakeFs(DirEntry, ch) : ch \in [ValidNames -> SmallEntries]}

\* what the second caller of listRace does: nothing, one delete, or the
\* delete of both files
Deleters ==
  {<<>>, <<DeleteOp(<<"a">>), DeleteOp(<<"b">>)>>}
    \cup {<<DeleteOp(n)>> : n \in ValidNames}

InitListRace ==
  \E f \in AnyFs, by \in Deleters :
    Setup("listRace",
          [r \in Req |-> IF r = 1 THEN <<ListOp, ListOp>>
                         ELSE IF r = 2 THEN by ELSE <<>>],
          f)

InitListSequence ==
  \E f \in AnyFs, c \in SmallContents, d \in SmallContents :
    Setup("listSequence",
          [r \in Req |-> IF r = 1
                           THEN <<CreateOp(<<"a">>, c), CreateOp(<<"b">>, d), ListOp,
                                  DeleteOp(<<"a">>), ListOp>>
                           ELSE <<>>],
          f)

\* the calls of testCallbackVersion, testPromiseVersion and testAsyncVersion,
\* followed by one more read
InitFullSequence ==
  \E n \in ValidNames, c \in SmallContents : \E f \in FsWithout(n) :
    Setup("fullSequence",
          [r \in Req |-> IF r = 1
                           THEN <<CreateOp(n, c), ReadOp(n), ListOp, DeleteOp(n), ReadOp(n)>>
                           ELSE <<>>],
          f)

\* contents of one and of three bytes
ReplaceContents == {<<97>>, <<8364>>}

\* one caller reads a file while another deletes it and creates it again
\* with another content
InitReadRace ==
  \E n \in ValidNames, c \in ReplaceContents, ch \in [ValidNames -> SmallEntries] :
    /\ ch[n].kind = "file"
    /\ Setup("readRace",
             [r \in Req |-> IF r = 1 THEN <<ReadOp(n)>>
                            ELSE IF r = 2 THEN <<DeleteOp(n), CreateOp(n, c)>>
                            ELSE <<>>],
             MakeFs(DirEntry, ch))

InitScript ==
  /\ \/ InitTwoDeletes
     \/ InitRoundTrip
     \/ InitRepeatCreate
     \/ InitDeleteLifecycle
     \/ InitListRace
     \/ InitListSequence
     \/ InitFullSequence
     \/ InitReadRace
  /\ vname = <<>>
  /\ request = [r \in Req |-> NoHttpRequest]

NextScript ==
  \/ initializeDirectory
  \/ \E r \in Req : ScriptCall(r)
  \/ \E r \in Req : Step(r)
  \/ \E r \in Req : ListStep(r)
  \/ \E r \in Req : ScriptReturn(r)

SpecScript == InitScript /\ [][NextScript]_vars

(***************************************************************************)
(* SpecLive: the listRace and fullSequence workloads, with every           *)
(* filesystem call completing eventually and every caller going on when it *)
(* can.                                                                    *)
(***************************************************************************)
InitLive ==
  /\ InitListRace \/ InitFullSequence
  /\ vname = <<>>
  /\ request = [r \in Req |-> NoHttpRequest]

Fairness ==
  /\ WF_vars(initializeDirectory)
  /\ \A r \in Req :
       /\ WF_vars(ScriptCall(r))
       /\ WF_vars(Step(r))
       /\ WF_vars(ListStep(r))
       /\ WF_vars(ScriptReturn(r))

SpecLive == InitLive /\ [][NextScript]_vars /\ Fairness

\* the first caller's list call is in progress
Listing1 == req[1].op = "list" /\ pc[1] # "idle" /\ pc[1] # "done"

\* C25: every list call eventually delivers an outcome to its caller, the
\* list or a failure, whatever the base directory holds, an empty directory
\* included.
C25_ListEventuallyDelivers ==
  Listing1 ~> (req[1].op = "list" /\ pc[1] = "done")

(***************************************************************************)
(* Claims checked under SpecScript.                                        *)
(***************************************************************************)
Succeeded(h) == Len(h) = 1 /\ h[1].outcome.status = "ok"
Failed(h) == Len(h) = 1 /\ h[1].outcome.status = "error"

\* C2: of two concurrent delete calls on the same existing file exactly one
\* reports success; the other fails, with NotFound when its probe ran after
\* the removal (the probe gave ENOENT) and with the raw error of its own
\* unlink (a StorageFailure) when its removal failed.
C2_ConcurrentDeletesOneWinner ==
  scenario = "twoDeletes" =>
    /\ ~(Succeeded(History(1)) /\ Succeeded(History(2)))
    /\ (Len(History(1)) = 1 /\ Len(History(2)) = 1)
         => (Succeeded(History(1)) \/ Succeeded(History(2)))
    /\ \A r \in 1..2 :
         Failed(History(r)) =>
           LET o == History(r)[1].outcome
               cs == History(r)[1].calls
           IN /\ (cs[1].error = "" \/ cs[1].error = "ENOENT")
              /\ cs[1].error = "ENOENT" => (Len(cs) = 1 /\ IsNotFound(o))
              /\ cs[1].error = ""
                   => /\ Len(cs) = 2
                      /\ cs[2].call = "unlink"
                      /\ cs[2].error # ""
                      /\ IsStorageFailure(o)
                      /\ o.code = cs[2].error

\* C2 witness: both deletes passed the probe; one removed the file, the other's
\* unlink failed and it ended with a StorageFailure
C2_Witness ==
  /\ scenario = "twoDeletes"
  /\ \E r \in 1..2 :
       /\ Succeeded(History(r))
       /\ Failed(History(3 - r))
       /\ Len(History(3 - r)[1].calls) = 2
       /\ IsStorageFailure(History(3 - r)[1].outcome)

\* no unpaired surrogate: the content is well-formed UTF-16
WellFormed(c) ==
  \A i \in 1..Len(c) :
    /\ IsHighSurrogate(c[i]) => (i < Len(c) /\ IsLowSurrogate(c[i + 1]))
    /\ IsLowSurrogate(c[i]) => (i > 1 /\ IsHighSurrogate(c[i - 1]))

\* the roundTrip caller's create has succeeded and its read has completed
RoundTripDone ==
  /\ scenario = "roundTrip"
  /\ Len(History(1)) = 2
  /\ History(1)[1].outcome.status = "ok"

\* C8 as claimed: a successful create(name, content) followed by read(name)
\* returns exactly that content, with size the byte length of the content,
\* for every content.
C8_RoundTripEveryContent ==
  RoundTripDone =>
    LET c == script[1][1].content
        o == History(1)[2].outcome
    IN /\ o.status = "ok"
       /\ o.content = c
       /\ o.size = Len(EncodeUtf8(c))

\* C8 amended: the read succeeds and its size is the byte length of the
\* content's UTF-8 encoding for every content; it returns exactly the content
\* when the content is well-formed UTF-16, and otherwise the content with
\* each unpaired surrogate replaced by U+FFFD.
C8_RoundTripWellFormed ==
  RoundTripDone =>
    LET c == script[1][1].content
        o == History(1)[2].outcome
    IN /\ o.status = "ok"
       /\ o.size = Len(EncodeUtf8(c))
       /\ WellFormed(c) => o.content = c
       /\ Len(o.content) = Len(c)
       /\ \A i \in 1..Len(c) :
            o.content[i] = c[i] \/ (o.content[i] = 65533 /\ ~WellFormed(c))

\* C8 witness: a content with a two-byte character and a surrogate pair has
\* made the round trip
C8_Witness ==
  /\ RoundTripDone
  /\ (script[1][1].content = <<233, 97>> \/ script[1][1].content = <<55357, 56832>>)
  /\ History(1)[2].outcome.content = script[1][1].content

\* C9: the size of a successful create result is the byte length of the
\* UTF-8 encoding of the content written (and so the size a read reports).
C9_CreateSizeIsByteLength ==
  \A r \in Req : \A i \in 1..Len(History(r)) :
    (History(r)[i].op.op = "create" /\ History(r)[i].outcome.status = "ok")
    => History(r)[i].outcome.size = Len(EncodeUtf8(History(r)[i].op.content))

\* the file the repeatCreate caller creates
RepeatPath == PathJoin(baseDir, script[1][1].filename)

\* C10: with a file at the name and no concurrent operation, every create
\* call on the name, however often repeated, fails with AlreadyExists and
\* the file's content stays as it was.
C10_RepeatedCreateFails ==
  [][scenario = "repeatCreate" =>
       /\ fs'[RepeatPath] = fs[RepeatPath]
       /\ fs[RepeatPath].kind = "file"
       /\ \A i \in 1..Len(History(1)') : IsAlreadyExists(History(1)[i].outcome)']_vars

\* C10 witness: the create has failed with AlreadyExists MaxRepeat times
C10_Witness ==
  /\ scenario = "repeatCreate"
  /\ Len(results[1]) = MaxRepeat
  /\ \A i \in 1..MaxRepeat : IsAlreadyExists(results[1][i].outcome)

\* C11: in a sequential run delete, create, delete, delete, ... on one name
\* that starts without a file: the first delete fails with NotFound; when the
\* create succeeded the delete after it succeeds and the file is gone from
\* then on; every other delete fails with NotFound, so at most one delete
\* succeeds, and only after a successful create.
C11_DeleteLifecycle ==
  scenario = "deleteLifecycle" =>
    LET h == History(1)
    IN /\ Len(h) >= 1 => IsNotFound(h[1].outcome)
       /\ (Len(h) >= 3 /\ h[2].outcome.status = "ok")
            => /\ h[3].outcome.status = "ok"
               /\ EntryAt(fs, PathJoin(baseDir, script[1][1].filename)).kind = "none"
       /\ \A i \in 3..Len(h) :
            IF i = 3 /\ h[2].outcome.status = "ok"
              THEN h[i].outcome.status = "ok"
              ELSE IsNotFound(h[i].outcome)

\* C11 witness: the whole script has run: the create and the delete after it
\* succeeded and the last delete failed with NotFound
C11_Witness ==
  /\ scenario = "deleteLifecycle"
  /\ Len(results[1]) = MaxRepeat + 2
  /\ results[1][2].outcome.status = "ok"
  /\ results[1][3].outcome.status = "ok"
  /\ IsNotFound(results[1][MaxRepeat + 2].outcome)

\* a stat of the list call with filesystem calls cs has failed
StatFailed(cs) ==
  \E i \in 2..Len(cs) : cs[i].error # "" /\ cs[i].error # "pending"

\* C13: list is fail-fast: once the stat of any enumerated entry has failed,
\* the call has ended in a StorageFailure, and what it delivers is never a
\* list, partial or complete, whatever the order the stats complete in.
C13_ListFailFast ==
  \A r \in Req :
    /\ (req[r].op = "list" /\ StatFailed(calls[r]))
         => (/\ pc[r] = "done"
             /\ IsStorageFailure(outcome[r])
             /\ outcome[r].files = <<>>)
    /\ \A i \in 1..Len(results[r]) :
         (results[r][i].op.op = "list" /\ StatFailed(results[r][i].calls))
           => (/\ IsStorageFailure(results[r][i].outcome)
               /\ results[r][i].outcome.files = <<>>)

\* C13 witness: of two enumerated entries one was deleted before its stat:
\* the stat of the other succeeded first, and the list ended in a
\* StorageFailure with the ENOENT of the failed stat
C13_Witness ==
  /\ scenario = "listRace"
  /\ req[1].op = "list"
  /\ pc[1] = "done"
  /\ Len(files[1]) = 2
  /\ Len(fileDetails[1]) = 1
  /\ IsStorageFailure(outcome[1])
  /\ outcome[1].code = "ENOENT"

\* C14: with nothing created or deleted in between, two successful list
\* calls return the entries in the same order.
C14_ListOrderStable ==
  (/\ scenario = "listRace"
   /\ script[2] = <<>>
   /\ Len(History(1)) = 2
   /\ History(1)[1].outcome.status = "ok"
   /\ History(1)[2].outcome.status = "ok")
  => History(1)[1].outcome.files = History(1)[2].outcome.files

\* the entries a list of the filesystem f has to return, as a set
Listing(f) ==
  {[filename |-> n, size |-> Len(EntryAt(f, PathJoin(baseDir, n)).data)] :
     n \in DirNames(f)}

\* the result of a list call as a set
Entries(o) == {o.files[k] : k \in 1..Len(o.files)}

\* the names in the result of a list call
ListedNames(o) == {o.files[k].filename : k \in 1..Len(o.files)}

\* C15: in the sequential run create a, create b, list, delete a, list, a
\* list that succeeds returns one entry per file in the base directory, each
\* with the byte size of the file; a is in the first list when its create
\* succeeded and not in the second when its delete succeeded, and b is in
\* both when its create succeeded.
C15_ListMatchesDirectory ==
  scenario = "listSequence" =>
    LET h == History(1)
    IN /\ (req[1].op = "list" /\ pc[1] = "done" /\ outcome[1].status = "ok")
            => (/\ Entries(outcome[1]) = Listing(fs)
                /\ Len(outcome[1].files) = Cardinality(DirNames(fs)))
       /\ (Len(h) >= 3 /\ h[3].outcome.status = "ok")
            => (/\ h[1].outcome.status = "ok" => <<"a">> \in ListedNames(h[3].outcome)
                /\ h[2].outcome.status = "ok" => <<"b">> \in ListedNames(h[3].outcome))
       /\ (Len(h) >= 5 /\ h[5].outcome.status = "ok")
            => (/\ h[4].outcome.status = "ok" => <<"a">> \notin ListedNames(h[5].outcome)
                /\ h[2].outcome.status = "ok" => <<"b">> \in ListedNames(h[5].outcome)
                /\ h[3].outcome.status = "ok"
                     => ListedNames(h[5].outcome) = ListedNames(h[3].outcome) \ {<<"a">>})

\* C15 witness: both creates succeeded, the first list returned a and b with
\* their sizes (one of them a two-byte file of one character), the delete
\* succeeded and the second list returned b alone
C15_Witness ==
  /\ scenario = "listSequence"
  /\ Len(History(1)) = 5
  /\ \A i \in 1..5 : History(1)[i].outcome.status = "ok"
  /\ script[1][1].content = <<233>>
  /\ Entries(History(1)[3].outcome)
       = {[filename |-> <<"a">>, size |-> 2],
          [filename |-> <<"b">>, size |-> Len(EncodeUtf8(script[1][2].content))]}
  /\ ListedNames(History(1)[5].outcome) = {<<"b">>}

\* C21: from a freshly constructed module with no file at n, each call of
\* create(n, c), read(n), list(), delete(n), made after the previous one
\* completed, succeeds: the read returns c, the list includes n; and the read
\* after them fails with NotFound.
C21_FullSequenceSucceeds ==
  scenario = "fullSequence" =>
    LET h == History(1)
        n == script[1][1].filename
        c == script[1][1].content
    IN /\ \A i \in 1..Len(h) : i <= 4 => h[i].outcome.status = "ok"
       /\ Len(h) >= 2 => h[2].outcome.content = c
       /\ Len(h) >= 3 => n \in ListedNames(h[3].outcome)
       /\ Len(h) >= 5 => IsNotFound(h[5].outcome)

\* the files: the entries directly under the base directory
Files(f) == [p \in {q \in DOMAIN f : IsDirectChild(q)} |-> f[p]]

\* request r takes a step
Moves(r) == pc'[r] # pc[r] \/ calls'[r] # calls[r] \/ outcome'[r] # outcome[r]

\* C23: the files change only in the step that delivers the success of a
\* create or of a delete, so a call that ends in a failure, and every read
\* and list, has changed no file; and a step of one request leaves every
\* other request, its filesystem calls and its outcome as they were.
C23_FailuresChangeNothing ==
  [][/\ Files(fs') # Files(fs)
         => \E r \in Req :
              /\ req[r].op = "create" \/ req[r].op = "delete"
              /\ pc[r] # "done"
              /\ pc'[r] = "done"
              /\ outcome'[r].status = "ok"
     /\ \A r \in Req : \A t \in Req : (Moves(r) /\ Moves(t)) => r = t]_vars

\* C23 witness: while one caller's create and read of a name succeeded, the
\* other's call on the other name ended in a failure, and no file is at
\* that other name
C23_Witness ==
  /\ scenario = "roundTrip"
  /\ Len(History(1)) = 2
  /\ History(1)[1].outcome.status = "ok"
  /\ History(1)[2].outcome.status = "ok"
  /\ Len(History(2)) = 1
  /\ History(2)[1].outcome.status = "error"
  /\ History(2)[1].op.filename # script[1][1].filename
  /\ EntryAt(fs, PathJoin(baseDir, History(2)[1].op.filename)).kind = "none"

\* C27: the size of every successful read result is the byte length of the
\* content it returns, under any interleaving with other requests.
C27_ReadResultConsistent ==
  \A r \in Req : \A i \in 1..Len(History(r)) :
    (History(r)[i].op.op = "read" /\ History(r)[i].outcome.status = "ok")
    => History(r)[i].outcome.size = Len(EncodeUtf8(History(r)[i].outcome.content))

\* C26: in the callback variant the completion callback of an operation is
\* never invoked twice: a call that has ended has had it invoked once, a call
\* in progress not yet, for create, read, delete and list, whatever the
\* number of failing stats of a list and the order they complete in.
C26_CallbackAtMostOnce ==
  variant = "callback" =>
    \A r \in Req :
      /\ invoked[r] <= 1
      /\ pc[r] = "done" <=> invoked[r] = 1

\* C26 witness: in the callback variant the stats of both entries of a list
\* have failed, and the callback was invoked once
C26_Witness ==
  /\ variant = "callback"
  /\ req[1].op = "list"
  /\ Len(calls[1]) = 3
  /\ calls[1][2].error = "ENOENT"
  /\ calls[1][3].error = "ENOENT"
  /\ invoked[1] = 1
  /\ IsStorageFailure(outcome[1])

=============================================================================
